---- MODULE Spec2Model ----
(***************************************************************************)
(* The logistic-regression loan classifier (classification/go.mod: the    *)
(* Go program stored behind the module header) as a state machine: main   *)
(* runs dataProfiling, savePlotPng, splitData, train and test in order,   *)
(* every stage talking to the next through CSV files only.                *)
(* logisticRegression is followed row by row through its numSteps passes. *)
(* A second specification, LinearSpec, follows test(r) of the             *)
(* linear-regression program (unnamed/part_000).                          *)
(*                                                                         *)
(* Numbers.  A CSV cell is [kind, num, dec]: a numeric cell prints the    *)
(* value num / 10^dec with dec digits after the point; a text cell (a     *)
(* header name, a field that is no number) keeps its length in bytes in   *)
(* num.  A parsed float64 is the integer value * 10^6.  FICO scores are   *)
(* whole numbers, interest rates are tenths of a percent.                 *)
(***************************************************************************)
EXTENDS Integers, Sequences, FiniteSets, TLC

\* ---------------------------------------------------------------- bounds
\* most data rows in the raw loan file
MaxRows == 2
\* most data rows in a ../dataset/test.csv left by an earlier program
MaxTestRows == 2
\* most rows of the cleaned file when splitData is studied on its own
MaxN == 12
\* size in bytes of a bufio.Writer made by bufio.NewWriter (4096 in the Go
\* library; scaled down so that buffers fill up on the bounded files)
BufSize == 32

\* ------------------------------------------------------------- constants
scoreMax == 830
scoreMin == 640
\* the passes train() asks logisticRegression for (line 291)
numSteps == 100

RawPath       == "../dataset/loan_data.csv"
CleanPath     == "../dataset/clean_loan_data.csv"
TrainingPath  == "../dataset/training.csv"
SplitTestPath == "test.csv"
TestPath      == "../dataset/test.csv"
Paths == {RawPath, CleanPath, TrainingPath, SplitTestPath, TestPath}

\* ------------------------------------------------------------------ cells
Num(n, d) == [kind |-> "num", num |-> n, dec |-> d]
Text(len) == [kind |-> "text", num |-> len, dec |-> 0]

Abs(x) == IF x < 0 THEN -x ELSE x

\* number of decimal digits of a natural number
RECURSIVE Digits(_)
Digits(n) == IF n < 10 THEN 1 ELSE 1 + Digits(n \div 10)

\* bytes of a cell as text
CellBytes(c) ==
    IF c.kind = "text" THEN c.num
    ELSE (IF c.num < 0 THEN 1 ELSE 0) + Digits(Abs(c.num) \div (10 ^ c.dec))
         + (IF c.dec > 0 THEN 1 + c.dec ELSE 0)

\* strconv.ParseFloat(cell, 64): the value * 10^6, or an error
ParseFloat(c) ==
    [ok  |-> c.kind = "num",
     val |-> IF c.kind = "num" THEN c.num * (10 ^ (6 - c.dec)) ELSE 0]

\* nearest integer to a / b for b > 0 (no input of the model is a tie)
Round(a, b) == (2 * a + b) \div (2 * b)

\* strconv.FormatFloat(v, 'f', 4, 64) of v = a / b
FormatFloat4(a, b) == Num(Round(a * 10000, b), 4)

\* ------------------------------------------------------- raw loan records
\* A raw record is <<fico, rate>>.  fico is the sequence of the parts of the
\* field between its "-" (what strings.Split gives), each part a numeric
\* text [num |-> score] or some other text; rate is a text followed by
\* pct "%" signs.
Part(n)   == [isnum |-> TRUE, num |-> n]
Junk      == [isnum |-> FALSE, num |-> 0]
Rate(t, p) == [isnum |-> TRUE, num |-> t, pct |-> p]
BadRate(p) == [isnum |-> FALSE, num |-> 0, pct |-> p]

\* faulty variant: the text after the last "-" is parsed
ParseScoreLast(fico) == [ok |-> fico[Len(fico)].isnum, val |-> fico[Len(fico)].num]

\* strconv.ParseFloat(strings.Split(record[0], "-")[0], 64)
ParseScore(fico) == [ok |-> fico[1].isnum, val |-> fico[1].num]

\* faulty variant: every trailing "%" is trimmed (strings.TrimRight)
ParseRateTrimAll(rate) == [ok |-> rate.isnum, val |-> rate.num]

\* strconv.ParseFloat(strings.TrimSuffix(record[1], "%"), 64), in tenths
ParseRate(rate) ==
    LET left == IF rate.pct > 0 THEN rate.pct - 1 ELSE 0
    IN  [ok |-> rate.isnum /\ left = 0, val |-> rate.num]

\* faulty variant: scoreMin is not subtracted
NormalizedScoreNoShift(score) == FormatFloat4(score, scoreMax - scoreMin)

\* outRecord[0]
NormalizedScore(score) == FormatFloat4(score - scoreMin, scoreMax - scoreMin)

\* faulty variant: the boundary 12.0 is left out
LabelOfStrict(rate) == IF rate < 120 THEN Num(10, 1) ELSE Num(0, 1)

\* outRecord[1]: "1.0" when rate <= 12.0, else "0.0"
LabelOf(rate) == IF rate <= 120 THEN Num(10, 1) ELSE Num(0, 1)

\* the record dataProfiling writes for a raw record that parses
CleanRecord(rec) ==
    <<NormalizedScore(ParseScore(rec[1]).val), LabelOf(ParseRate(rec[2]).val)>>

\* ---------------------------------------------------------------- writers
\* bufio.Writer.Write / WriteString of len bytes into a buffer of the given
\* size holding n bytes: the bytes left in the buffer and the bytes passed on
\* to the underlying writer.  A write that does not fit fills the buffer and
\* flushes it; a write larger than an empty buffer goes straight through.
RECURSIVE BufWrite(_, _, _)
BufWrite(size, n, len) ==
    IF len > size - n
    THEN IF n = 0
         THEN [n |-> 0, out |-> len]
         ELSE LET r == BufWrite(size, 0, len - (size - n))
              IN  [n |-> r.n, out |-> size + r.out]
    ELSE [n |-> n + len, out |-> 0]

\* bytes of a record as a CSV line: the fields, a comma, a newline
RecordBytes(rec) == CellBytes(rec[1]) + CellBytes(rec[2]) + 2

\* A csv.Writer at work.  recs are the records given to it and ends the
\* offset in the byte stream at which each of them ends; size and n are the
\* size of its bufio.Writer and the bytes waiting there.  behind is the size
\* of a second bufio.Writer between that buffer and the file (0: there is
\* none) and held the bytes waiting in it; out counts the bytes in the file.
CsvWriter(size, behind) ==
    [recs |-> <<>>, ends |-> <<>>, size |-> size, n |-> 0,
     behind |-> behind, held |-> 0, out |-> 0]

\* csv.NewWriter(f) on an *os.File (line 107)
NewCsvWriter == CsvWriter(BufSize, 0)

\* csv.NewWriter(w) on a bufio.Writer of the given size: bufio.NewWriterSize
\* hands back w itself when w is already a bufio.Writer of at least the size
\* asked for, else it puts a buffer of its own in front of w
NewCsvWriterOn(size) ==
    IF size >= BufSize THEN CsvWriter(size, 0) ELSE CsvWriter(BufSize, size)

\* bytes leave the csv.Writer's buffer: to the file, or into the buffer behind
Emit(w, bytes) ==
    IF bytes = 0 THEN w
    ELSE IF w.behind = 0 THEN [w EXCEPT !.out = @ + bytes]
    ELSE LET r == BufWrite(w.behind, w.held, bytes)
         IN  [w EXCEPT !.held = r.n, !.out = @ + r.out]

\* one WriteString / WriteByte of len bytes on the csv.Writer's buffer
WritePiece(w, len) ==
    LET r == BufWrite(w.size, w.n, len)
    IN  Emit([w EXCEPT !.n = r.n], r.out)

\* csv.Writer.Write(record): field, comma, field, newline
CsvWrite(w, rec) ==
    LET w1 == WritePiece(w, CellBytes(rec[1]))
        w2 == WritePiece(w1, 1)
        w3 == WritePiece(w2, CellBytes(rec[2]))
        w4 == WritePiece(w3, 1)
        end == (IF w.ends = <<>> THEN 0 ELSE w.ends[Len(w.ends)]) + RecordBytes(rec)
    IN  [w4 EXCEPT !.recs = Append(@, rec), !.ends = Append(@, end)]

\* csv.Writer.Flush(): the buffer goes to the writer under it
CsvFlush(w) == Emit([w EXCEPT !.n = 0], w.n)

\* the records that lie wholly within the bytes that reached the file (a
\* record cut short by a lost buffer is no record of the file)
OnDisk(w) ==
    SubSeq(w.recs, 1, Cardinality({i \in 1..Len(w.ends) : w.ends[i] <= w.out}))

\* ------------------------------------------------------------ file system
NoFile == [exists |-> FALSE, recs |-> <<>>]
File(recs) == [exists |-> TRUE, recs |-> recs]

\* ------------------------------------------------------------------ inputs
RawHeader == <<Text(10), Text(13)>>

\* a score at either end of scoreMin..scoreMax, one above it with a rate that
\* has no "%", one below it with text after the "-", a score that is no
\* number, a rate with "%%", a rate that is no number, a range written with
\* its larger end first
RawRecords ==
    { <<<<Part(640), Part(644)>>, Rate(120, 1)>>,
      <<<<Part(830), Part(834)>>, Rate(121, 1)>>,
      <<<<Part(850), Part(854)>>, Rate(75, 0)>>,
      <<<<Part(600), Junk>>, Rate(150, 1)>>,
      <<<<Junk, Part(650)>>, Rate(120, 1)>>,
      <<<<Part(735), Part(739)>>, Rate(120, 2)>>,
      <<<<Part(700), Part(704)>>, BadRate(1)>>,
      <<<<Part(739), Part(735)>>, Rate(130, 1)>> }

\* rows of a ../dataset/test.csv that some earlier program left behind
StaleRecords ==
    { <<Num(900000, 6), Num(1000000, 6)>>,
      <<Num(100000, 6), Num(1000000, 6)>>,
      <<Text(3), Num(0, 6)>>,
      <<Num(900000, 6), Text(3)>> }

SeqsUpTo(S, n) == UNION {[1..k -> S] : k \in 0..n}

\* well-formed loan files of n rows: scores rising from 640, or falling from
\* 850 to below scoreMin; rates on either side of 12.0
LoanFile(n, rising) ==
    [i \in 1..n |->
       LET score == IF rising THEN 640 + 10 * (i - 1) ELSE 850 - 20 * (i - 1)
       IN  <<<<Part(score), Part(score + 4)>>, Rate(105 + 5 * (i % 6), 1)>>]

LoanFiles == {LoanFile(n, r) : n \in 0..MaxN, r \in BOOLEAN}

\* the contents the raw loan file may have: its data rows
RawFiles == SeqsUpTo(RawRecords, MaxRows) \cup LoanFiles

\* what may lie at ../dataset/test.csv before main starts
StaleFiles ==
    {NoFile} \cup {File(<<RawHeader>> \o t) : t \in SeqsUpTo(StaleRecords, MaxTestRows)}

\* one plain raw file, and the plain states of ../dataset/test.csv: no file,
\* a file of one good row
PlainRawFiles == {LoanFile(5, TRUE)}
PlainStaleFiles == {NoFile, File(<<RawHeader, <<Num(900000, 6), Num(1000000, 6)>>>>)}

\* the runs looked at: any raw file with a plain ../dataset/test.csv, and the
\* plain raw file with any ../dataset/test.csv
Inputs ==
    {in \in RawFiles \X StaleFiles :
        in[1] \in PlainRawFiles \/ in[2] \in PlainStaleFiles}

\* the weight vectors (in hundredths) gradient descent may end with
WeightChoices == {<<1365, -489>>, <<25, 60>>, <<-300, 100>>}

\* ------------------------------------------------------------------- state
VARIABLES
    pc,            \* where main is
    fs,            \* the files: path -> [exists, recs]
    wrote,         \* path -> the stage of this run that created it, or "nobody"
    opened,        \* the files stages have opened for reading, with their producer
    rawCSVData,    \* the records read by reader.ReadAll() (dataProfiling, train)
    idx,           \* the index of the loop over records at work
    w,             \* the csv.Writer at work (dataProfiling, splitData)
    trainingNum, testNum, trainingIdx, testIdx,
    setMap,        \* splitData: the two subset dataframes
    setIdx,        \* splitData: index of the loop over the two file names
    featureData, labels, featureIndex, features,
    featureRec,    \* train: the index of the record each matrix row was parsed from
    labelRec,      \* train: the index of the record each label was parsed from
    weights,       \* train: the vector logisticRegression returned
    step,          \* logisticRegression: the pass at work (i in the source)
    lrWeights,     \* logisticRegression: weights, each as its count of updates
    trace,         \* logisticRegression: the last row visit and the visits so far
    rd,            \* test: records consumed from the csv.Reader
    line, observed, predicted, logged, accuracy,
    r,             \* linear regression: the model train() returned
    testData,      \* linear regression, test: the records of reader.ReadAll()
    mAE            \* linear regression, test: the error summed so far

vars == <<pc, fs, wrote, opened, rawCSVData, idx, w, trainingNum, testNum,
          trainingIdx, testIdx, setMap, setIdx, featureData, labels,
          featureIndex, features, featureRec, labelRec, weights, step, lrWeights,
          trace, rd, line, observed, predicted, logged, accuracy, r, testData,
          mAE>>

splitVars == <<trainingNum, testNum, trainingIdx, testIdx, setMap, setIdx>>
trainVars == <<featureData, labels, featureIndex, features, featureRec, labelRec,
               weights, step, lrWeights, trace>>
testVars  == <<rd, line, observed, predicted, logged, accuracy>>
linearVars == <<r, testData, mAE>>

NoAccuracy == [correct |-> 0, total |-> 0, set |-> FALSE]

\* a regression.Regression on which Run() has not succeeded
NoRegression == [trained |-> FALSE, intercept |-> 0, slope |-> 0]

\* no row visited yet
NoVisit == [visits |-> 0, i |-> 0, idx |-> 0, read |-> <<>>,
            feature |-> -1, label |-> -1]

\* everything but pc and the files, as it is before main starts
InitLocals ==
    /\ wrote = [p \in Paths |-> "nobody"]
    /\ opened = {}
    /\ rawCSVData = <<>>
    /\ idx = 0
    /\ w = NewCsvWriter
    /\ trainingNum = 0 /\ testNum = 0
    /\ trainingIdx = <<>> /\ testIdx = <<>>
    /\ setMap = <<>>
    /\ setIdx = 0
    /\ featureData = <<>> /\ labels = <<>> /\ featureIndex = 0
    /\ features = <<>> /\ weights = <<>>
    /\ featureRec = <<>> /\ labelRec = <<>>
    /\ step = 0 /\ lrWeights = <<>> /\ trace = NoVisit
    /\ rd = 0 /\ line = 1
    /\ observed = <<>> /\ predicted = <<>> /\ logged = <<>>
    /\ accuracy = NoAccuracy

Init ==
    /\ pc = "dataProfiling"
    /\ \E in \in Inputs :
          fs = [p \in Paths |->
                  IF p = RawPath THEN File(<<RawHeader>> \o in[1])
                  ELSE IF p = TestPath THEN in[2]
                  ELSE NoFile]
    /\ InitLocals
    /\ r = NoRegression /\ testData = <<>> /\ mAE = 0

\* log.Fatal: the process exits with status 1, nothing buffered is flushed
Fatal == pc' = "fatal"

Open(stage, path) ==
    opened' = opened \cup {[stage |-> stage, path |-> path, producer |-> wrote[path]]}

\* os.Create(path): the file exists and is empty
Create(stage, path) ==
    /\ fs' = [fs EXCEPT ![path] = File(<<>>)]
    /\ wrote' = [wrote EXCEPT ![path] = stage]

\* ------------------------------------------------------------ dataProfiling
\* lines 86-107: open and read the raw file, create the clean file
DataProfilingOpen ==
    /\ pc = "dataProfiling"
    /\ IF ~fs[RawPath].exists
       THEN /\ Fatal
            /\ UNCHANGED <<fs, wrote, opened, rawCSVData, idx, w>>
       ELSE /\ Open("dataProfiling", RawPath)
            /\ rawCSVData' = fs[RawPath].recs
            /\ Create("dataProfiling", CleanPath)
            /\ w' = NewCsvWriter
            /\ idx' = 0
            /\ pc' = "dataProfiling.loop"
    /\ UNCHANGED <<splitVars, trainVars, testVars, linearVars>>

\* lines 109-144: one pass of the loop over the raw records
DataProfilingRow ==
    /\ pc = "dataProfiling.loop"
    /\ idx < Len(rawCSVData)
    /\ LET record == rawCSVData[idx + 1]
           written(rec) ==
               LET nw == CsvWrite(w, rec)
               IN  /\ w' = nw
                   /\ fs' = [fs EXCEPT ![CleanPath] = File(OnDisk(nw))]
                   /\ idx' = idx + 1
                   /\ pc' = pc
       IN  IF idx = 0
           THEN written(record)
           ELSE IF ~ParseScore(record[1]).ok \/ ~ParseRate(record[2]).ok
                THEN Fatal /\ UNCHANGED <<fs, idx, w>>
                ELSE written(CleanRecord(record))
    /\ UNCHANGED <<wrote, opened, rawCSVData, splitVars, trainVars, testVars, linearVars>>

\* lines 145-150: w.Flush() and return to main
DataProfilingFlush ==
    /\ pc = "dataProfiling.loop"
    /\ idx = Len(rawCSVData)
    /\ w' = CsvFlush(w)
    /\ fs' = [fs EXCEPT ![CleanPath] = File(OnDisk(CsvFlush(w)))]
    /\ pc' = "savePlotPng"
    /\ UNCHANGED <<wrote, opened, rawCSVData, idx, splitVars, trainVars, testVars, linearVars>>


\* -------------------------------------------------------------- savePlotPng
\* dataframe.ReadCSV: the first record names the columns; a column whose
\* cells are all numbers is a float column, any other a string column; a
\* file with no data row gives a dataframe that carries an error
IsFloatCol(rows, c) == \A i \in 1..Len(rows) : rows[i][c].kind = "num"

ReadCSV(file) ==
    IF Len(file.recs) <= 1
    THEN [err |-> TRUE, names |-> <<>>, rows |-> <<>>,
          float |-> <<FALSE, FALSE>>]
    ELSE LET rows == Tail(file.recs)
         IN  [err   |-> FALSE,
              names |-> Head(file.recs),
              rows  |-> [i \in 1..Len(rows) |->
                          [c \in 1..2 |->
                             IF IsFloatCol(rows, c)
                             THEN ParseFloat(rows[i][c]).val
                             ELSE rows[i][c]]],
              float |-> [c \in 1..2 |-> IsFloatCol(rows, c)]]

Nrow(df) == Len(df.rows)

\* lines 152-190: read the clean file, print the summary, save the histograms
SavePlotPng ==
    /\ pc = "savePlotPng"
    /\ IF ~fs[CleanPath].exists
       THEN Fatal /\ UNCHANGED opened
       ELSE Open("savePlotPng", CleanPath) /\ pc' = "splitData"
    /\ UNCHANGED <<fs, wrote, rawCSVData, idx, w, splitVars, trainVars, testVars, linearVars>>

\* ---------------------------------------------------------------- splitData
\* faulty variant: lines 205-207 left out
TrainingNumNoRoundUp(n) == (4 * n) \div 5

\* lines 203-207 (the splitData of the linear-regression program,
\* unnamed/part_000 lines 153-157, computes the same)
TrainingNum(n) ==
    LET t == (4 * n) \div 5
    IN  IF t + n \div 5 < n THEN t + 1 ELSE t

\* faulty variant: the test set is rounded up
TestNumRoundUp(n) == (n + 4) \div 5

\* line 204
TestNum(n) == n \div 5

\* lines 209-214: the index slice (Go indices, from 0)
TrainingIdx(tn) == [i \in 1..tn |-> i - 1]
\* faulty variant: the test indices start one row early
TestIdxFromLastTraining(tn, sn) == [i \in 1..sn |-> tn + i - 2]

\* lines 210-218
TestIdx(tn, sn) == [i \in 1..sn |-> tn + i - 1]

\* DataFrame.Subset(indexes): an index outside the rows gives a dataframe
\* that carries an error
Subset(df, indexes) ==
    IF df.err THEN df
    ELSE IF \E i \in 1..Len(indexes) : indexes[i] < 0 \/ indexes[i] >= Len(df.rows)
    THEN [df EXCEPT !.err = TRUE, !.rows = <<>>]
    ELSE [df EXCEPT !.rows = [i \in 1..Len(indexes) |-> df.rows[indexes[i] + 1]]]

\* DataFrame.Records(): the names, then every row as text, a float as "%f"
Records(df) ==
    <<df.names>> \o
    [i \in 1..Len(df.rows) |->
       [c \in 1..2 |-> IF df.float[c] THEN Num(df.rows[i][c], 6) ELSE df.rows[i][c]]]

\* line 229
SetNames == <<TrainingPath, SplitTestPath>>

\* faulty variant: a buffer smaller than the one csv.NewWriter asks for
SmallerWriterSize == BufSize - 1

\* line 236: the size of the buffer bufio.NewWriter(f) makes
SplitWriterSize == BufSize

\* lines 193-227: read the clean file, size the two sets, list their indices,
\* take the two subsets
SplitDataCalc ==
    /\ pc = "splitData"
    /\ IF ~fs[CleanPath].exists
       THEN /\ Fatal
            /\ UNCHANGED <<opened, splitVars>>
       ELSE LET loanDF == ReadCSV(fs[CleanPath])
                tn == TrainingNum(Nrow(loanDF))
                sn == TestNum(Nrow(loanDF))
            IN  /\ Open("splitData", CleanPath)
                /\ trainingNum' = tn
                /\ testNum' = sn
                /\ trainingIdx' = TrainingIdx(tn)
                /\ testIdx' = TestIdx(tn, sn)
                /\ setMap' = <<Subset(loanDF, TrainingIdx(tn)),
                               Subset(loanDF, TestIdx(tn, sn))>>
                /\ setIdx' = 0
                /\ pc' = "splitData.create"
    /\ UNCHANGED <<fs, wrote, rawCSVData, idx, w, trainVars, testVars, linearVars>>

\* lines 229-238: the next file is created and gets its writers; WriteCSV
\* fails at once on a dataframe that carries an error
SplitDataCreate ==
    /\ pc = "splitData.create"
    /\ LET setName == SetNames[setIdx + 1]
       IN  /\ Create("splitData", setName)
           /\ w' = NewCsvWriterOn(SplitWriterSize)
           /\ idx' = 0
           /\ IF setMap[setIdx + 1].err THEN Fatal ELSE pc' = "splitData.write"
    /\ UNCHANGED <<opened, rawCSVData, splitVars, trainVars, testVars, linearVars>>

\* line 238: WriteCSV hands Records() to csv.Writer.WriteAll; one record of
\* WriteAll's loop
SplitDataWrite ==
    /\ pc = "splitData.write"
    /\ idx < Len(Records(setMap[setIdx + 1]))
    /\ LET nw == CsvWrite(w, Records(setMap[setIdx + 1])[idx + 1])
       IN  /\ w' = nw
           /\ fs' = [fs EXCEPT ![SetNames[setIdx + 1]] = File(OnDisk(nw))]
    /\ idx' = idx + 1
    /\ UNCHANGED <<pc, wrote, opened, rawCSVData, splitVars, trainVars, testVars, linearVars>>

\* lines 238-241: WriteAll ends with a Flush of the csv.Writer; nothing
\* flushes the bufio.Writer made at line 236 and nothing closes the file.
\* On to the next file name, or back to main
SplitDataFlush ==
    /\ pc = "splitData.write"
    /\ idx = Len(Records(setMap[setIdx + 1]))
    /\ w' = CsvFlush(w)
    /\ fs' = [fs EXCEPT ![SetNames[setIdx + 1]] = File(OnDisk(CsvFlush(w)))]
    /\ setIdx' = setIdx + 1
    /\ pc' = IF setIdx + 1 = Len(SetNames) THEN "train" ELSE "splitData.create"
    /\ UNCHANGED <<wrote, opened, rawCSVData, idx, trainingNum, testNum,
                   trainingIdx, testIdx, setMap, trainVars, testVars, linearVars>>

\* -------------------------------------------------------------------- train
Zeros(n) == [k \in 1..n |-> 0]

\* n slots none of which any record has been parsed into
Unwritten(n) == [k \in 1..n |-> -1]

\* mat64.NewDense(n, 2, data): row i is data[2i], data[2i+1] (from 0)
NewDense(n, data) == [k \in 1..n |-> <<data[2 * k - 1], data[2 * k]>>]

\* the matrix row that featureData[k] lands in (NewDense, 2 columns)
RowOfFeature(k) == k \div 2

\* line 287: the element of labels that record k of the file writes
LabelSlot(k) == k

\* lines 245-265: read the training file, make featureData and labels
TrainOpen ==
    /\ pc = "train"
    /\ IF ~fs[TrainingPath].exists
       THEN /\ Fatal
            /\ UNCHANGED <<opened, rawCSVData, idx, featureData, labels, featureIndex,
                           featureRec, labelRec>>
       ELSE /\ Open("train", TrainingPath)
            /\ rawCSVData' = fs[TrainingPath].recs
            /\ featureData' = Zeros(2 * Len(fs[TrainingPath].recs))
            /\ labels' = Zeros(Len(fs[TrainingPath].recs))
            /\ featureRec' = Unwritten(Len(fs[TrainingPath].recs))
            /\ labelRec' = Unwritten(Len(fs[TrainingPath].recs))
            /\ featureIndex' = 0
            /\ idx' = 0
            /\ pc' = "train.loop"
    /\ UNCHANGED <<fs, wrote, w, splitVars, features, weights, step, lrWeights, trace,
                   testVars, linearVars>>

\* lines 267-288: one pass of the loop over the training records
TrainRow ==
    /\ pc = "train.loop"
    /\ idx < Len(rawCSVData)
    /\ LET record == rawCSVData[idx + 1]
           featureVal == ParseFloat(record[1])
           labelVal == ParseFloat(record[2])
       IN  IF idx = 0
           THEN /\ idx' = idx + 1
                /\ pc' = pc
                /\ UNCHANGED <<featureData, labels, featureIndex, featureRec, labelRec>>
           ELSE IF ~featureVal.ok \/ ~labelVal.ok
                THEN /\ Fatal
                     /\ UNCHANGED <<idx, featureData, labels, featureIndex,
                                    featureRec, labelRec>>
                ELSE /\ featureData' = [featureData EXCEPT
                                          ![featureIndex + 1] = featureVal.val,
                                          ![featureIndex + 2] = 10 ^ 6]
                     /\ featureRec' = [featureRec EXCEPT
                                         ![RowOfFeature(featureIndex) + 1] = idx]
                     /\ featureIndex' = featureIndex + 2
                     /\ labels' = [labels EXCEPT ![LabelSlot(idx) + 1] = labelVal.val]
                     /\ labelRec' = [labelRec EXCEPT ![LabelSlot(idx) + 1] = idx]
                     /\ idx' = idx + 1
                     /\ pc' = pc
    /\ UNCHANGED <<fs, wrote, opened, rawCSVData, w, splitVars, features, weights,
                   step, lrWeights, trace, testVars, linearVars>>

\* features.Dims(): rows and columns of the matrix (NewDense is given 2 columns)
Dims(m) == [r |-> Len(m), c |-> 2]

\* lines 289-291 and 306-313: form the matrix, enter logisticRegression and
\* draw the first weights.  A weight is a float64 that starts at a random
\* number of [0,1); the model keeps, for each weight, how many updates it has
\* had since
TrainFit ==
    /\ pc = "train.loop"
    /\ idx = Len(rawCSVData)
    /\ features' = NewDense(Len(rawCSVData), featureData)
    /\ lrWeights' = Zeros(Dims(NewDense(Len(rawCSVData), featureData)).c)
    /\ step' = 0
    /\ idx' = 0
    /\ trace' = NoVisit
    /\ pc' = "logisticRegression"
    /\ UNCHANGED <<fs, wrote, opened, rawCSVData, w, splitVars, featureData,
                   labels, featureIndex, featureRec, labelRec, weights, testVars, linearVars>>

\* faulty variant: the updates of a pass are held back to its end
RowUpdateDeferred(ws, featureRow) == ws

\* lines 326-328: weights[j] += ... for every j < len(featureRow)
RowUpdate(ws, featureRow) ==
    [j \in 1..Len(ws) |-> IF j <= Len(featureRow) THEN ws[j] + 1 ELSE ws[j]]

\* lines 320-329: one pass of the loop over labels: the row idx of the
\* matrix, the prediction from the weights as they are now, the error
\* against labels[idx] (added to sumError, which nothing reads), the update
LogisticRegressionRow ==
    /\ pc = "logisticRegression"
    /\ step < numSteps
    /\ idx < Len(labels)
    /\ LET featureRow == features[idx + 1]
       IN  /\ trace' = [visits  |-> trace.visits + 1,
                        i       |-> step,
                        idx     |-> idx,
                        read    |-> lrWeights,
                        feature |-> featureRec[idx + 1],
                        label   |-> labelRec[idx + 1]]
           /\ lrWeights' = RowUpdate(lrWeights, featureRow)
    /\ idx' = idx + 1
    /\ UNCHANGED <<pc, fs, wrote, opened, rawCSVData, w, splitVars, featureData,
                   labels, featureIndex, features, featureRec, labelRec, weights,
                   step, testVars, linearVars>>

\* line 316: the loop over labels is through, i++
LogisticRegressionStep ==
    /\ pc = "logisticRegression"
    /\ step < numSteps
    /\ idx = Len(labels)
    /\ step' = step + 1
    /\ idx' = 0
    /\ UNCHANGED <<pc, fs, wrote, opened, rawCSVData, w, splitVars, featureData,
                   labels, featureIndex, features, featureRec, labelRec, weights,
                   lrWeights, trace, testVars, linearVars>>

\* lines 316, 331 and 291-295: i < numSteps fails, the weights go back to
\* train, which prints them.  The float64 values are any member of
\* WeightChoices of the length of the vector logisticRegression made
LogisticRegressionReturn ==
    /\ pc = "logisticRegression"
    /\ step >= numSteps
    /\ \E wv \in {x \in WeightChoices : Len(x) = Len(lrWeights)} : weights' = wv
    /\ pc' = "test"
    /\ UNCHANGED <<fs, wrote, opened, rawCSVData, idx, w, splitVars, featureData,
                   labels, featureIndex, features, featureRec, labelRec, step,
                   lrWeights, trace, testVars, linearVars>>

\* --------------------------------------------------------------------- test
\* variant: a prediction from the weights train() ended with
predictTrained(score) ==
    IF weights[1] * score + weights[2] * (10 ^ 6) >= 0 THEN 10 ^ 6 ELSE 0

\* lines 338-346: p = 1 / (1 + exp(-13.65*score + 4.89)) >= 0.5, that is
\* 13.65 * score >= 4.89
predict(score) == IF 1365 * score >= 489 * (10 ^ 6) THEN 10 ^ 6 ELSE 0

\* faulty variant: the score's parse error is not looked at
RowOkLabelOnly(observedVal, scoreVal) == observedVal.ok

\* lines 375-385: the row counts when both of its fields parse
RowOk(observedVal, scoreVal) == observedVal.ok /\ scoreVal.ok

\* lines 349-361
TestOpen ==
    /\ pc = "test"
    /\ IF ~fs[TestPath].exists
       THEN Fatal /\ UNCHANGED opened
       ELSE Open("test", TestPath) /\ pc' = "test.loop"
    /\ rd' = 0
    /\ line' = 1
    /\ observed' = <<>>
    /\ predicted' = <<>>
    /\ UNCHANGED <<fs, wrote, rawCSVData, idx, w, splitVars, trainVars, logged,
                   accuracy, linearVars>>

\* lines 363-391: one pass of the loop that got a record from reader.Read()
TestRead ==
    /\ pc = "test.loop"
    /\ rd < Len(fs[TestPath].recs)
    /\ LET record == fs[TestPath].recs[rd + 1]
           observedVal == ParseFloat(record[2])
           scoreVal == ParseFloat(record[1])
       IN  IF line = 1
           THEN /\ line' = line + 1
                /\ UNCHANGED <<observed, predicted, logged>>
           ELSE IF ~RowOk(observedVal, scoreVal)
                THEN /\ logged' = Append(logged, [line |-> line, row |-> rd + 1])
                     /\ UNCHANGED <<line, observed, predicted>>
                ELSE /\ observed' = Append(observed, observedVal.val)
                     /\ predicted' = Append(predicted, predict(scoreVal.val))
                     /\ line' = line + 1
                     /\ UNCHANGED logged
    /\ rd' = rd + 1
    /\ UNCHANGED <<pc, fs, wrote, opened, rawCSVData, idx, w, splitVars, trainVars,
                   accuracy, linearVars>>

\* lines 392-402
TruePosNeg(obs, pred) == Cardinality({i \in 1..Len(obs) : obs[i] = pred[i]})

\* lines 366-368 and 392-405: end of file, count the hits, print the accuracy
TestFinish ==
    /\ pc = "test.loop"
    /\ rd = Len(fs[TestPath].recs)
    /\ accuracy' = [correct |-> TruePosNeg(observed, predicted),
                    total |-> Len(observed), set |-> TRUE]
    /\ pc' = "done"
    /\ UNCHANGED <<fs, wrote, opened, rawCSVData, idx, w, splitVars, trainVars,
                   rd, line, observed, predicted, logged, linearVars>>

\* ------------------------------------------------------------ specification
Next ==
    \/ DataProfilingOpen
    \/ DataProfilingRow
    \/ DataProfilingFlush
    \/ SavePlotPng
    \/ SplitDataCalc
    \/ SplitDataCreate
    \/ SplitDataWrite
    \/ SplitDataFlush
    \/ TrainOpen
    \/ TrainRow
    \/ TrainFit
    \/ LogisticRegressionRow
    \/ LogisticRegressionStep
    \/ LogisticRegressionReturn
    \/ TestOpen
    \/ TestRead
    \/ TestFinish

Spec == Init /\ [][Next]_vars

\* ------------------------------------------- linear regression: test(r)
\* The linear-regression program (unnamed/part_000) from the call test(r) of
\* its main on.  A record of its test file is <<TV, Radio, Newspaper, Sales>>;
\* the model is Sales = intercept + slope * TV, the slope in hundredths.
LinearHeader == <<Text(2), Text(5), Text(9), Text(5)>>

\* rows on the line 5.0 + 0.10 * TV and off it, a TV and a Sales that are no
\* numbers, a row of two fields
LinearRecords ==
    { <<Num(100, 0), Num(378, 1), Num(692, 1), Num(150, 1)>>,
      <<Num(50, 0), Num(393, 1), Num(451, 1), Num(100, 1)>>,
      <<Num(20, 0), Num(459, 1), Num(693, 1), Num(93, 1)>>,
      <<Text(3), Num(413, 1), Num(585, 1), Num(185, 1)>>,
      <<Num(20, 0), Num(108, 1), Num(584, 1), Text(3)>>,
      <<Num(500000, 6), Num(1000000, 6)>> }

LinearTestFiles ==
    {NoFile} \cup
    {File(<<LinearHeader>> \o t) : t \in SeqsUpTo(LinearRecords, MaxTestRows)}

\* the models train() may return: fitted lines, and one on which Run() failed
\* (train() does not look at what Run() returns)
RegressionChoices ==
    { [trained |-> TRUE, intercept |-> 5 * (10 ^ 6), slope |-> 10],
      [trained |-> TRUE, intercept |-> 7 * (10 ^ 6), slope |-> 5],
      NoRegression }

\* r.Predict([]float64{tvVal})
Predict(reg, tvVal) ==
    [ok  |-> reg.trained,
     val |-> reg.intercept + (reg.slope * tvVal) \div 100]

\* reader.ReadAll() with FieldsPerRecord = 4
FieldsPerRecordOk(recs) == \A k \in 1..Len(recs) : Len(recs[k]) = 4

logisticVars == <<wrote, opened, rawCSVData, w, splitVars, trainVars, testVars>>

LinearInit ==
    /\ pc = "linear.test"
    /\ \E file \in LinearTestFiles :
          fs = [p \in Paths |-> IF p = TestPath THEN file ELSE NoFile]
    /\ InitLocals
    /\ r \in RegressionChoices
    /\ testData = <<>>
    /\ mAE = 0

\* part_000 lines 242-258: open the test file and read all its records
LinearTestOpen ==
    /\ pc = "linear.test"
    /\ IF ~fs[TestPath].exists \/ ~FieldsPerRecordOk(fs[TestPath].recs)
       THEN Fatal /\ UNCHANGED testData
       ELSE testData' = fs[TestPath].recs /\ pc' = "linear.test.loop"
    /\ idx' = 0
    /\ mAE' = 0
    /\ UNCHANGED <<fs, r, logisticVars>>

\* part_000 lines 259-281: one pass of the loop over testData.  A float64
\* is kept in millionths; the division rounds towards zero there
LinearTestRow ==
    /\ pc = "linear.test.loop"
    /\ idx < Len(testData)
    /\ LET record == testData[idx + 1]
           yObserved == ParseFloat(record[4])
           tvVal == ParseFloat(record[1])
           yPredicted == Predict(r, tvVal.val)
       IN  IF idx = 0
           THEN idx' = idx + 1 /\ UNCHANGED <<pc, mAE>>
           ELSE IF ~yObserved.ok \/ ~tvVal.ok \/ ~yPredicted.ok
                THEN Fatal /\ UNCHANGED <<idx, mAE>>
                ELSE /\ mAE' = mAE + Abs(yObserved.val - yPredicted.val)
                                       \div Len(testData)
                     /\ idx' = idx + 1
                     /\ pc' = pc
    /\ UNCHANGED <<fs, r, testData, logisticVars>>

\* part_000 lines 282-284: print the MAE
LinearTestFinish ==
    /\ pc = "linear.test.loop"
    /\ idx = Len(testData)
    /\ pc' = "linear.done"
    /\ UNCHANGED <<fs, idx, r, testData, mAE, logisticVars>>

LinearNext ==
    \/ LinearTestOpen
    \/ LinearTestRow
    \/ LinearTestFinish

LinearSpec == LinearInit /\ [][LinearNext]_vars


\* ------------------------------------------------------------------ claims
\* the data rows of the cleaned file and their number
CleanRows == Tail(fs[CleanPath].recs)
N == Len(CleanRows)

\* splitData has sized and listed its two sets
SplitCalcDone == \E o \in opened : o.stage = "splitData"

\* splitData has returned to main
SplitReturned == setIdx = Len(SetNames)

\* the values of the rows of a file, whatever digits they are printed with
RowValues(recs) ==
    [i \in 1..Len(recs) |-> <<ParseFloat(recs[i][1]).val, ParseFloat(recs[i][2]).val>>]

Range(f) == {f[i] : i \in 1..Len(f)}

\* C1: once splitData has computed trainingNum and testNum for a cleaned file
\* of N data rows, trainingNum + testNum = N.
C1_CountsSumToN == SplitCalcDone => trainingNum + testNum = N

\* a row count that 5 does not divide, with both sets non-empty
C1_Witness == SplitCalcDone /\ N = 7 /\ trainingNum = 6 /\ testNum = 1

\* C2: trainingNum is the least integer that is at least 4N/5 and testNum is
\* N less trainingNum; 10 rows split 8 and 2, 11 rows split 9 and 2.
C2_TrainingIsCeil ==
    SplitCalcDone =>
        /\ 5 * trainingNum >= 4 * N
        /\ 5 * (trainingNum - 1) < 4 * N
        /\ testNum = N - trainingNum
        /\ N = 10 => trainingNum = 8 /\ testNum = 2
        /\ N = 11 => trainingNum = 9 /\ testNum = 2

C2_Witness == SplitCalcDone /\ N = 11 /\ trainingNum = 9 /\ testNum = 2

\* C3: trainingIdx is 0, 1, ..., trainingNum-1 and testIdx is trainingNum,
\* ..., N-1, in that order; the two are disjoint, lie within 0..N-1 and
\* together hold every row index, so the two subsets one after the other are
\* the rows of the cleaned file.
C3_ContiguousDisjointCover ==
    SplitCalcDone =>
        /\ Len(trainingIdx) = trainingNum
        /\ \A i \in 1..Len(trainingIdx) : trainingIdx[i] = i - 1
        /\ \A i \in 1..Len(testIdx) : testIdx[i] = trainingNum + i - 1
        /\ Range(trainingIdx) \cap Range(testIdx) = {}
        /\ Range(trainingIdx) \cup Range(testIdx) = 0..(N - 1)
        /\ N > 0 => setMap[1].rows \o setMap[2].rows = RowValues(CleanRows)

C3_Witness == SplitCalcDone /\ N = 12 /\ Len(testIdx) = 2 /\ Len(trainingIdx) = 10

\* C4: when splitData has returned, the training file holds the header and
\* the first ceil(4N/5) cleaned rows and the test file the header and the
\* rows after them: nothing given to the writers is missing from the files.
C4_FilesHoldEveryRow ==
    SplitReturned =>
        LET k == (4 * N + 4) \div 5
            training == fs[TrainingPath].recs
            test == fs[SplitTestPath].recs
        IN  /\ training # <<>> /\ test # <<>>
            /\ Head(training) = Head(fs[CleanPath].recs)
            /\ Head(test) = Head(fs[CleanPath].recs)
            /\ RowValues(Tail(training)) = RowValues(SubSeq(CleanRows, 1, k))
            /\ RowValues(Tail(test)) = RowValues(SubSeq(CleanRows, k + 1, N))

\* both files written, the test file with rows of its own and longer than
\* one buffer
C4_Witness ==
    /\ SplitReturned
    /\ N = 12
    /\ Len(fs[SplitTestPath].recs) = 3
    /\ w.ends[Len(w.ends)] > BufSize
    /\ w.out = w.ends[Len(w.ends)]

\* C5: every stage reads the file an earlier stage of the same run wrote:
\* train() the training file of splitData, test() the test file of
\* splitData, and only the raw dataset comes from outside the run.
C5_StagesReadThisRunsFiles ==
    \A o \in opened :
        /\ o.path # RawPath => o.producer # "nobody"
        /\ o.stage \in {"train", "test"} => o.producer = "splitData"

\* C6: every row of the matrix given to logisticRegression is (normalized
\* score of a training data row, 1.0), and the matrix has one row for each
\* training data row and no other.
C6_FeatureRowsAreTrainingRows ==
    features # <<>> =>
        LET rows == Tail(fs[TrainingPath].recs)
        IN  /\ Len(features) = Len(rows)
            /\ \A i \in 1..Len(features) :
                  /\ features[i][2] = 10 ^ 6
                  /\ i <= Len(rows) => features[i][1] = ParseFloat(rows[i][1]).val

Parses(rec) == rec[1].kind = "num" /\ rec[2].kind = "num"
Unparsable(rec) == ~Parses(rec)

C8_SkipsUnparsableRows ==
    (\E o \in opened : o.stage = "test") =>
        LET seen == SubSeq(fs[TestPath].recs, 2, rd)
            kept == SelectSeq(seen, Parses)
        IN  /\ pc \in {"test.loop", "done"}
            /\ Len(observed) = Len(kept)
            /\ Len(predicted) = Len(kept)
            /\ \A i \in 1..Len(kept) : observed[i] = ParseFloat(kept[i][2]).val
            /\ Len(logged) = Len(SelectSeq(seen, Unparsable))
            /\ {l.row : l \in Range(logged)} =
                   {i \in 2..rd : Unparsable(fs[TestPath].recs[i])}
            /\ pc = "done" =>
                   /\ rd = Len(fs[TestPath].recs)
                   /\ accuracy.total = Len(kept)
                   /\ accuracy.correct <= accuracy.total

\* two data rows, one of them unparsable: accuracy over the other one
C8_Witness ==
    /\ pc = "done"
    /\ Len(fs[TestPath].recs) = 3
    /\ Len(logged) = 1
    /\ accuracy.total = 1

\* C9: when a data row of the raw file has a score or a rate the cleaner
\* cannot read as a number, dataProfiling never gets past the first such
\* row: no row after it is written, no stage after dataProfiling starts and
\* no later file is created.
Malformed(rec) == ~rec[1][1].isnum \/ ~rec[2].isnum \/ rec[2].pct > 1

FirstMalformed ==
    LET raw == fs[RawPath].recs
        bad == {i \in 2..Len(raw) : Malformed(raw[i])}
    IN  IF bad = {} THEN 0 ELSE CHOOSE i \in bad : \A j \in bad : i <= j

DataProfilingReturned ==
    pc = "savePlotPng" \/ \E o \in opened : o.stage = "savePlotPng"

\* the smallest of the endpoints of a score range
RangeMin(fico) ==
    CHOOSE m \in {fico[k].num : k \in 1..Len(fico)} :
        \A k \in 1..Len(fico) : m <= fico[k].num

\* a printed with 4 decimals is the nearest such number to (m - 640) / 190
IsNormalized(c, m) ==
    /\ c.kind = "num"
    /\ c.dec = 4
    /\ 2 * Abs(c.num * (scoreMax - scoreMin) - (m - scoreMin) * 10000)
           <= scoreMax - scoreMin

C12_OneLabelledRowPerRawRow ==
    /\ pc = "dataProfiling.loop" => Len(w.recs) = idx
    /\ DataProfilingReturned => Len(fs[CleanPath].recs) = Len(fs[RawPath].recs)
    /\ \A i \in 2..Len(fs[CleanPath].recs) :
          LET rate == fs[RawPath].recs[i][2].num
              label == fs[CleanPath].recs[i][2]
          IN  /\ rate <= 120 => label = Num(10, 1)
              /\ rate > 120 => label = Num(0, 1)
              /\ rate = 120 => label = Num(10, 1)
              /\ rate = 121 => label = Num(0, 1)

\* a rate of 12.0 and a rate of 12.1 side by side
C12_Witness ==
    /\ DataProfilingReturned
    /\ Len(fs[CleanPath].recs) = 3
    /\ fs[RawPath].recs[2][2] = Rate(120, 1)
    /\ fs[CleanPath].recs[2][2] = Num(10, 1)
    /\ fs[RawPath].recs[3][2] = Rate(121, 1)
    /\ fs[CleanPath].recs[3][2] = Num(0, 1)

\* C13: logisticRegression pairs row idx of the matrix with labels[idx], and
\* the two were parsed from the same record of the training file.
C13_UpdatePairsSameRecord ==
    trace.visits > 0 =>
        /\ trace.feature >= 1
        /\ trace.feature = trace.label

\* C15: the number in every "Parsing line %d failed" warning of test() is
\* the 1-based number, in the test file, of the row that failed.
C15_LoggedLineIsRowNumber ==
    \A k \in 1..Len(logged) : logged[k].line = logged[k].row

\* what holds of logisticRegression in every state: the visits so far are
\* passes 0, 1, ... each over the indices 0..len(labels)-1 in order, every
\* visit reads weights that carry the updates of all visits before it, and
\* the function returns after numSteps = 100 full passes, with 2 weights
LogisticRegressionInv ==
    /\ numSteps = 100
    /\ trace.visits > 0 =>
          /\ trace.i = (trace.visits - 1) \div Len(labels)
          /\ trace.idx = (trace.visits - 1) % Len(labels)
          /\ trace.i < numSteps
          /\ Len(trace.read) = 2
          /\ \A j \in 1..Len(trace.read) : trace.read[j] = trace.visits - 1
    /\ pc = "logisticRegression" =>
          /\ step <= numSteps
          /\ idx <= Len(labels)
          /\ trace.visits = step * Len(labels) + idx
          /\ weights = <<>>
    /\ weights # <<>> =>
          /\ step = numSteps
          /\ trace.visits = numSteps * Len(labels)
          /\ trace.i = numSteps - 1
          /\ trace.idx = Len(labels) - 1
          /\ Len(weights) = Dims(features).c
          /\ Len(weights) = 2

\* the steps logisticRegression has yet to take before it returns: it can
\* take no more than this many, so it returns
StepsLeft == (numSteps - step) * (Len(labels) + 1) - idx

\* C16: logisticRegression with numSteps = 100 always returns, after exactly
\* 100 passes, each over every label index once in increasing order with the
\* weights updated at every row; nothing ends it early; it returns as many
\* weights as the matrix has columns, 2.
C16_HundredOnlinePasses ==
    /\ []LogisticRegressionInv
    /\ [][pc = "logisticRegression" =>
            \/ pc' = "test" /\ step = numSteps /\ weights' # <<>>
            \/ pc' = pc /\ StepsLeft' < StepsLeft /\ StepsLeft' >= 0]_vars

\* the last row of the last pass over 5 labels has been visited and the
\* weights are back in train
C16_Witness ==
    /\ pc = "test"
    /\ Len(labels) = 5
    /\ trace.visits = 500
    /\ trace.i = 99
    /\ trace.idx = 4
    /\ Len(weights) = 2

\* the sum of |observed - predicted| over the records k..Len(recs) of a test
\* file, in millionths
RECURSIVE SumAbsError(_, _)
SumAbsError(recs, k) ==
    IF k > Len(recs) THEN 0
    ELSE Abs(ParseFloat(recs[k][4]).val - Predict(r, ParseFloat(recs[k][1]).val).val)
         + SumAbsError(recs, k + 1)

\* C14: the MAE that test() of the linear-regression program prints is the
\* sum of |observed - predicted| over the data rows of the test file divided
\* by the number of data rows, the header not counted (to within the
\* rounding of the divisions, less than a millionth for each row).
C14_MAEOverDataRows ==
    (pc = "linear.done" /\ Len(testData) > 1) =>
        LET rows == Len(testData) - 1
        IN  Abs(mAE * rows - SumAbsError(testData, 2)) <= rows * rows

====
